---- MODULE Spec2Model ----
(***************************************************************************)
(* A model of the RemindMeX bot: the duration parser (time_parser.py), the *)
(* intake and delivery processors (bot.py) over the store (models.py), and *)
(* the jobs that drive them (scheduler.py).                                *)
(*                                                                         *)
(* Texts are sequences of one-character strings.  Instants are seconds     *)
(* since 2000-01-01T00:00:00 UTC.                                          *)
(***************************************************************************)
EXTENDS Integers, Sequences, FiniteSets, TLC

\* ------------------------------------------------------------------ bounds
\* Spec: one worker running the jobs one after the other
MaxEvents == 2
MaxFaults == 2
\* SoloSpec and LiveSpec: a feed of fewer events
LiveEvents == 1
LiveFaults == 1
\* RaceSpec and IntakeRaceSpec: two workers running jobs at the same time
RaceEvents == 1
RaceFaults == 1
\* The clock runs from 0 to MaxTime
MaxTime == 1
\* The counters of successful runs in job_stats count up to MaxRuns and stay there
MaxRuns == 1

\* Python's None, for ids and instants alike (every real id and instant is >= 0).
None == 0 - 1

Min(S) == CHOOSE x \in S : \A y \in S : x <= y
Max(S) == CHOOSE x \in S : \A y \in S : y <= x

\* ------------------------------------------------------- characters, str
Digits == <<"0", "1", "2", "3", "4", "5", "6", "7", "8", "9">>
UpperChars == <<"A", "B", "C", "D", "E", "F", "G", "H", "I", "J", "K", "L", "M",
                "N", "O", "P", "Q", "R", "S", "T", "U", "V", "W", "X", "Y", "Z">>
LowerChars == <<"a", "b", "c", "d", "e", "f", "g", "h", "i", "j", "k", "l", "m",
                "n", "o", "p", "q", "r", "s", "t", "u", "v", "w", "x", "y", "z">>

\* The character classes \d, \s and \w as sets
DigitClass == {Digits[i] : i \in 1..10}
SpaceClass == {" ", "\t", "\n"}
WordClass == DigitClass \cup {UpperChars[i] : i \in 1..26} \cup {LowerChars[i] : i \in 1..26} \cup {"_"}

IsDigit(c) == \E i \in 1..10 : Digits[i] = c
DigitVal(c) == (CHOOSE i \in 1..10 : Digits[i] = c) - 1
IsUpper(c) == \E i \in 1..26 : UpperChars[i] = c
ToLower(c) == IF IsUpper(c) THEN LowerChars[CHOOSE i \in 1..26 : UpperChars[i] = c] ELSE c

\* str.lower()
lower(s) == [i \in 1..Len(s) |-> ToLower(s[i])]

\* str.strip()
strip(s) ==
    LET keep == {i \in 1..Len(s) : s[i] \notin SpaceClass}
    IN  IF keep = {} THEN <<>> ELSE SubSeq(s, Min(keep), Max(keep))

\* The length of the longest run of characters of class cls that starts at s[i].
RunLen(s, i, cls) ==
    LET stop == {j \in i..Len(s) : s[j] \notin cls}
    IN  IF i > Len(s) THEN 0 ELSE IF stop = {} THEN Len(s) - i + 1 ELSE Min(stop) - i

\* re.sub(r"@\w+", "", s), scanning from s[i]
RECURSIVE SubMentions(_, _)
SubMentions(s, i) ==
    IF i > Len(s) THEN <<>>
    ELSE IF s[i] = "@" /\ RunLen(s, i + 1, WordClass) > 0
         THEN SubMentions(s, i + 1 + RunLen(s, i + 1, WordClass))
         ELSE <<s[i]>> \o SubMentions(s, i + 1)

\* int() of a run of digits
ToInt(ds) ==
    LET value[n \in 0..Len(ds)] ==
            IF n = 0 THEN 0 ELSE 10 * value[n - 1] + DigitVal(ds[n])
    IN  value[Len(ds)]

\* str() of an integer
RECURSIVE str(_)
str(n) ==
    IF n < 0 THEN <<"-">> \o str(0 - n)
    ELSE IF n < 10 THEN <<Digits[n + 1]>>
    ELSE str(n \div 10) \o <<Digits[(n % 10) + 1]>>

\* ------------------------------------------------------------ calendar
IsLeap(y) == (y % 4 = 0 /\ y % 100 # 0) \/ y % 400 = 0

DaysInMonth(y, m) ==
    IF m = 2 THEN (IF IsLeap(y) THEN 29 ELSE 28)
    ELSE IF m \in {4, 6, 9, 11} THEN 30 ELSE 31

DaysInYear(y) == IF IsLeap(y) THEN 366 ELSE 365

\* Leap years in [1, y)
LeapsBefore(y) == ((y - 1) \div 4) - ((y - 1) \div 100) + ((y - 1) \div 400)

\* Days from 2000-01-01 to y-01-01
DaysBeforeYear(y) == (y - 2000) * 365 + (LeapsBefore(y) - LeapsBefore(2000))

RECURSIVE DaysBeforeMonth(_, _)
DaysBeforeMonth(y, m) ==
    IF m = 1 THEN 0 ELSE DaysBeforeMonth(y, m - 1) + DaysInMonth(y, m - 1)

\* datetime(y, m, d, hh, mm, ss) as an instant
DateTime(y, m, d, hh, mm, ss) ==
    (DaysBeforeYear(y) + DaysBeforeMonth(y, m) + (d - 1)) * 86400
        + hh * 3600 + mm * 60 + ss

\* The calendar fields of an instant
Civil(t) ==
    LET days == t \div 86400
        y == 2000 + Max({k \in 0..67 : DaysBeforeYear(2000 + k) <= days})
        doy == days - DaysBeforeYear(y)
        m == Max({k \in 1..12 : DaysBeforeMonth(y, k) <= doy})
    IN  [year |-> y, month |-> m, day |-> doy - DaysBeforeMonth(y, m) + 1,
         sod |-> t % 86400]

\* datetime + timedelta(seconds=n)
timedelta(t, n) == t + n

\* datetime + relativedelta(months=n): the month advanced, the day clamped
AddMonths(t, n) ==
    LET c == Civil(t)
        total == (c.month - 1) + n
        y == c.year + (total \div 12)
        m == (total % 12) + 1
        d == IF c.day > DaysInMonth(y, m) THEN DaysInMonth(y, m) ELSE c.day
    IN  DateTime(y, m, d, 0, 0, 0) + c.sod

\* datetime + relativedelta(years=n)
AddYears(t, n) == AddMonths(t, 12 * n)

\* ------------------------------------------------- time_parser.TimeParser
\* self.duration_patterns: (\d+)\s*(<alternatives>)s? and the unit it stands for,
\* in the order the list gives them
duration_patterns == <<
    [unit |-> "seconds", alts |-> <<<<"s", "e", "c", "o", "n", "d">>, <<"s", "e", "c">>, <<"s">>>>],
    [unit |-> "minutes", alts |-> <<<<"m", "i", "n", "u", "t", "e">>, <<"m", "i", "n">>, <<"m">>>>],
    [unit |-> "hours", alts |-> <<<<"h", "o", "u", "r">>, <<"h", "r">>, <<"h">>>>],
    [unit |-> "days", alts |-> <<<<"d", "a", "y">>, <<"d">>>>],
    [unit |-> "weeks", alts |-> <<<<"w", "e", "e", "k">>, <<"w", "k">>, <<"w">>>>],
    [unit |-> "months", alts |-> <<<<"m", "o", "n", "t", "h">>, <<"m", "o">>>>],
    [unit |-> "years", alts |-> <<<<"y", "e", "a", "r">>, <<"y", "r">>, <<"y">>>>] >>

HasPrefixAt(s, j, w) ==
    /\ j + Len(w) - 1 <= Len(s)
    /\ \A k \in 1..Len(w) : s[j + k - 1] = w[k]

\* The pattern (\d+)\s*(alts)s? matched at s[i]: the index of the last character
\* matched, or 0 when it does not match there.  \d+ and \s* are greedy and giving
\* characters back never helps (a digit or a blank is no start of a unit); the
\* alternatives are tried in order; the final s is optional.
MatchEnd(s, i, alts) ==
    IF i > Len(s) \/ ~IsDigit(s[i]) THEN 0
    ELSE LET d == RunLen(s, i, DigitClass)
             j == i + d + RunLen(s, i + d, SpaceClass)
             ks == {k \in 1..Len(alts) : HasPrefixAt(s, j, alts[k])}
         IN  IF ks = {} THEN 0
             ELSE LET e == j + Len(alts[Min(ks)])
                  IN  IF e <= Len(s) /\ s[e] = "s" THEN e ELSE e - 1

\* re.search(pattern, s): the leftmost position where the pattern matches
NoMatch == [start |-> 0, end |-> 0]

re_search(s, alts) ==
    LET starts == {i \in 1..Len(s) : MatchEnd(s, i, alts) # 0}
    IN  IF starts = {} THEN NoMatch
        ELSE [start |-> Min(starts), end |-> MatchEnd(s, Min(starts), alts)]

\* match.group(1) as an integer, match.group(0)
MatchAmount(s, m) == ToInt(SubSeq(s, m.start, m.start + RunLen(s, m.start, DigitClass) - 1))
MatchText(s, m) == SubSeq(s, m.start, m.end)

\* (None, None).  A result is what the call returns, exc = "", or the exception
\* it raises
Failure == [target |-> None, label |-> <<>>, exc |-> ""]

\* base_time + delta for the unit's delta
ApplyDelta(base_time, unit, amount) ==
    CASE unit = "seconds" -> timedelta(base_time, amount)
      [] unit = "minutes" -> timedelta(base_time, 60 * amount)
      [] unit = "hours" -> timedelta(base_time, 3600 * amount)
      [] unit = "days" -> timedelta(base_time, 86400 * amount)
      [] unit = "weeks" -> timedelta(base_time, 604800 * amount)
      [] unit = "months" -> AddMonths(base_time, amount)
      [] unit = "years" -> AddYears(base_time, amount)

\* base_time + delta is past datetime.max, 9999-12-31T23:59:59: the addition
\* raises instead of returning an instant.  Decided in whole years, days and
\* hours; an amount of seconds or minutes below 2^31 stays within range.
OutOfRange(base_time, unit, amount) ==
    CASE unit = "years" -> Civil(base_time).year + amount > 9999
      [] unit = "months" ->
             Civil(base_time).year + ((Civil(base_time).month - 1 + amount) \div 12) > 9999
      [] unit = "weeks" -> (base_time \div 86400) + 7 * amount > DaysBeforeYear(10000) - 1
      [] unit = "days" -> (base_time \div 86400) + amount > DaysBeforeYear(10000) - 1
      [] unit = "hours" -> (base_time \div 3600) + amount > 24 * DaysBeforeYear(10000) - 1
      [] OTHER -> FALSE

\* The first pattern of the list, in list order, that matches anywhere in the text
FirstPattern(text) ==
    LET ks == {k \in 1..Len(duration_patterns) :
                  re_search(text, duration_patterns[k].alts) # NoMatch}
    IN  IF ks = {} THEN 0 ELSE Min(ks)

\* The unit and the amount the explicit-unit phase resolves (0: no pattern matches)
ExplicitUnit(text) ==
    IF FirstPattern(text) = 0 THEN "none" ELSE duration_patterns[FirstPattern(text)].unit

ExplicitAmount(text) ==
    IF FirstPattern(text) = 0 THEN 0
    ELSE MatchAmount(text, re_search(text, duration_patterns[FirstPattern(text)].alts))

\* target_time = base_time + delta; return target_time, matched_text.  There is
\* no try around the addition: what it raises (datetime + timedelta:
\* OverflowError; datetime + relativedelta: ValueError) leaves the call
Resolved(base_time, unit, amount, matched_text) ==
    IF OutOfRange(base_time, unit, amount)
    THEN [Failure EXCEPT !.exc = IF unit \in {"months", "years"}
                                 THEN "ValueError" ELSE "OverflowError"]
    ELSE [target |-> ApplyDelta(base_time, unit, amount), label |-> matched_text, exc |-> ""]

_parse_explicit_duration(text, base_time) ==
    LET k == FirstPattern(text)
    IN  IF k = 0 THEN Failure
        ELSE LET pat == duration_patterns[k]
                 m == re_search(text, pat.alts)
             IN  Resolved(base_time, pat.unit, MatchAmount(text, m), MatchText(text, m))

\* self.cal.parse(phrase, base_time) is the parsedatetime library's: cal[i] is its
\* answer for the i-th phrase tried, [status, time], status < 0 standing for an
\* exception (from the call or from datetime(*time_struct[:6])).
PhrasesToTry == 3

\* The library recognising nothing in any phrase
CalUnknown == [i \in 1..PhrasesToTry |-> [status |-> 0, time |-> None]]

_parse_natural_language(text, base_time, cal) ==
    LET ok == {i \in 1..PhrasesToTry : cal[i].status > 0 /\ cal[i].time > base_time}
    IN  IF ok = {} THEN Failure
        ELSE [target |-> cal[Min(ok)].time, label |-> text, exc |-> ""]

\* The text parse() hands to both phases
Normalize(text) == strip(SubMentions(strip(lower(text)), 1))

\* `if result[0]`: a datetime is always true, None never; what the explicit-unit
\* phase raises leaves parse, the natural-language phase catches its own
parse(text, base_time, cal) ==
    LET t == Normalize(text)
        explicit == _parse_explicit_duration(t, base_time)
    IN  IF explicit # Failure THEN explicit
        ELSE _parse_natural_language(t, base_time, cal)

\* f"{n} {unit}{'s' if n != 1 else ''}"
Plural(n, unit) == str(n) \o <<" ">> \o unit \o (IF n # 1 THEN <<"s">> ELSE <<>>)

\* A format_duration that never leaves the seconds
format_in_seconds(target_time, base_time) ==
    Plural(target_time - base_time, <<"s", "e", "c", "o", "n", "d">>)

\* format_duration(target_time, base_time): the whole seconds between the two,
\* in the largest unit that fits, months of 30 days and years of 365
format_duration(target_time, base_time) ==
    LET total_seconds == target_time - base_time
    IN  IF total_seconds < 60
        THEN Plural(total_seconds, <<"s", "e", "c", "o", "n", "d">>)
        ELSE IF total_seconds < 3600
        THEN Plural(total_seconds \div 60, <<"m", "i", "n", "u", "t", "e">>)
        ELSE IF total_seconds < 86400
        THEN Plural(total_seconds \div 3600, <<"h", "o", "u", "r">>)
        ELSE IF total_seconds < 604800
        THEN Plural(total_seconds \div 86400, <<"d", "a", "y">>)
        ELSE IF total_seconds < 2592000
        THEN Plural(total_seconds \div 604800, <<"w", "e", "e", "k">>)
        ELSE IF total_seconds < 31536000
        THEN Plural(total_seconds \div 2592000, <<"m", "o", "n", "t", "h">>)
        ELSE Plural(total_seconds \div 31536000, <<"y", "e", "a", "r">>)

\* ---------------------------------------------------------- parser inputs
T_1_month == <<"1", " ", "m", "o", "n", "t", "h">>
T_bot_3_months == <<"@", "b", "o", "t", " ", "3", " ", "m", "o", "n", "t", "h", "s">>
T_remind_3_months == <<"r", "e", "m", "i", "n", "d", " ", "m", "e", " ", "3", " ", "m", "o", "n", "t", "h", "s", " ", "p", "l", "e", "a", "s", "e", ",", " ", "t", "h", "a", "n", "k", "s", " ", "2", "x">>
T_2_weeks == <<"2", " ", "w", "e", "e", "k", "s">>

\* Requests for one to four whole weeks
WeekTexts == {<<"1", " ", "w", "e", "e", "k", "s">>,
              T_2_weeks,
              <<"3", " ", "w", "e", "e", "k", "s">>,
              <<"4", " ", "w", "e", "e", "k", "s">>}

T_Bot_1s == <<"@", "B", "o", "t", " ", "1", "s">>
T_1_year == <<"1", " ", "y", "e", "a", "r">>
T_3_days_5s == <<"3", " ", "d", "a", "y", "s", " ", "5", "s">>
T_hello == <<"@", "b", "o", "t", " ", "h", "e", "l", "l", "o", " ", "t", "h", "e", "r", "e">>
T_5_secs == <<"5", " ", "s", "e", "c", "s">>
T_tomorrow == <<"t", "o", "m", "o", "r", "r", "o", "w">>
T_15_hours == <<"1", "5", " ", "h", "o", "u", "r", "s">>
T_1_minute == <<"1", " ", "m", "i", "n", "u", "t", "e">>
T_7_d == <<"7", " ", "d">>
T_2_Months == <<"2", " ", "M", "o", "n", "t", "h", "s">>

ParserTexts == {T_1_month,
                T_bot_3_months,
                T_remind_3_months,
                T_2_weeks,
                T_Bot_1s,
                T_1_year,
                T_3_days_5s,
                T_hello,
                T_5_secs,
                T_tomorrow,
                T_15_hours,
                T_1_minute,
                T_7_d,
                T_2_Months,
                <<"0", " ", "d", "a", "y", "s">>,
                <<"i", "n", " ", "0", "s">>,
                <<"9", "9", "9", "9", "9", "9", "9", " ", "d", "a", "y", "s">>,
                <<"9", "9", "9", "9", " ", "y", "e", "a", "r", "s">>} \cup WeekTexts

\* Reference instants: a 31st, a leap day, the last second of a year
ParserBases == {DateTime(2024, 1, 31, 0, 0, 0),
                DateTime(2024, 2, 29, 12, 0, 0),
                DateTime(2023, 12, 31, 23, 59, 59)}

\* What the library may answer for one phrase at base_time
CalAnswers(base_time) ==
    {[status |-> 0, time |-> None],
     [status |-> 0 - 1, time |-> None],
     [status |-> 1, time |-> base_time + 86400],
     [status |-> 1, time |-> base_time],
     [status |-> 2, time |-> base_time - 3600]}

\* ------------------------------------------------------------ the system
\* The executor threads a job may run on, over all deployed instances; the jobs
\* share nothing but the store
Workers == {"w1", "w2"}

\* The instant the clock starts from; utcnow() is BootTime + clock
BootTime == DateTime(2024, 1, 31, 0, 0, 0)

\* What the events of the feed may say
MentionTexts == {T_Bot_1s, T_hello}

\* The same, and requests for whole weeks
FeedTexts ==
    MentionTexts \cup WeekTexts
        \cup {<<"9", "9", "9", "9", "9", "9", "9", " ", "d", "a", "y", "s">>}

\* The failure texts str(e) of the outbound client and of the store
TweepyError == "403 Forbidden"
OtherError == "ConnectionError"
StoreError == "OperationalError"

VARIABLES
    reminders,    \* table reminders: the sequence of its rows, a row's id its index
    processed,    \* table processed_mentions: the tweet ids in it
    cursor,       \* table bot_state: the value of key last_mention_id, or None
    mentions,     \* the feed: the text of each event, by event id
    clock,        \* seconds since BootTime
    faults,       \* the failures and crashes the environment may still cause
    worker,       \* per worker, the job it runs and where it is in it
    errors,       \* per worker, job_stats["errors"] of its instance
    stats,        \* per worker, the rest of job_stats: the runs that succeeded, by
                  \* job, and when the last of them did
    outbox,       \* per event and kind of reply, the tweets create_tweet has posted
    sentCommits,  \* per event, the commits that set its reminder's is_sent
    calls,        \* per event, the calls of process_mention that got past reading
                  \* the processed marker: 0, 1, or 2 for two or more
    parser        \* a call of TimeParser.parse on its own: input and result

vars == <<reminders, processed, cursor, mentions, clock, faults, worker, errors,
          stats, outbox, sentCommits, calls, parser>>

store == <<reminders, processed, cursor>>

Events == DOMAIN mentions

utcnow == BootTime + clock

\* parse_reminder_time(text) at every instant of the clock: time_parser.parse(text)
\* with base_time = utcnow()
ParseAt == [text \in FeedTexts, c \in 0..MaxTime |-> parse(text, BootTime + c, CalUnknown)]

parse_reminder_time(text) == ParseAt[text, clock]

Idle == [job |-> "none", pc |-> "idle", id |-> None, todo |-> {},
         target |-> None, label |-> <<>>, exc |-> "", resp |-> None]

\* job_stats as the module defines it, without "errors"
NoRuns == [mentions_checked |-> 0, reminders_processed |-> 0,
           last_mention_check |-> None, last_reminder_check |-> None]

IdleParser == [text |-> <<>>, base_time |-> None, cal |-> CalUnknown,
               done |-> FALSE, result |-> Failure, exc |-> "",
               target_time |-> None, shown |-> <<>>]

\* The state after construction: an empty store, a feed of n events saying one
\* of texts, no job running
InitFeed(n, budget, texts) ==
    /\ reminders = <<>>
    /\ processed = {}
    /\ cursor = None
    /\ mentions \in [1..n -> texts]
    /\ clock = 0
    /\ faults = budget
    /\ worker = [w \in Workers |-> Idle]
    /\ errors = [w \in Workers |-> 0]
    /\ stats = [w \in Workers |-> NoRuns]
    /\ outbox = [e \in 1..n |-> [confirm |-> 0, error |-> 0, remind |-> 0]]
    /\ sentCommits = [e \in 1..n |-> 0]
    /\ calls = [e \in 1..n |-> 0]

InitWith(n, budget) == InitFeed(n, budget, MentionTexts)

Init == InitWith(MaxEvents, MaxFaults) /\ parser = IdleParser

\* ---------------------------------------------------------------- store
get_last_mention_id == cursor

\* A lookup that finds no ProcessedMention
never_processed(tweet_id) == FALSE

is_mention_processed(tweet_id) == tweet_id \in processed

\* A mark_mention_processed that writes nothing
mark_nothing(tweet_id) == processed

\* The insert of a ProcessedMention; the IntegrityError of a second one is swallowed
mark_mention_processed(tweet_id) == processed \cup {tweet_id}

\* A store without the unique constraint: nothing is rejected
NoIntegrityError(rows, tweet_id) == FALSE

\* The unique constraint on reminders.source_tweet_id
IntegrityError(rows, tweet_id) ==
    \E i \in 1..Len(rows) : rows[i].source_tweet_id = tweet_id

\* Reminder(...) as process_mention builds it
Reminder(tweet_id, target_time, duration_text) ==
    [source_tweet_id |-> tweet_id,
     reply_to_tweet_id |-> tweet_id,
     original_text |-> mentions[tweet_id],
     duration_text |-> duration_text,
     remind_at |-> target_time,
     created_at |-> utcnow,
     is_sent |-> FALSE,
     sent_at |-> None,
     reply_tweet_id |-> None,
     error_message |-> ""]

\* An insert that writes over the row of the same source
ReplaceReminder(rows, row) ==
    IF IntegrityError(rows, row.source_tweet_id)
    THEN [i \in 1..Len(rows) |->
             IF rows[i].source_tweet_id = row.source_tweet_id THEN row ELSE rows[i]]
    ELSE Append(rows, row)

\* session.add(reminder); session.commit()
InsertReminder(rows, row) ==
    IF IntegrityError(rows, row.source_tweet_id) THEN rows ELSE Append(rows, row)

\* A due query that selects nothing
no_due_reminders(rows, t) == {}

\* A due query that forgets the time
all_unsent_reminders(rows, t) == {i \in 1..Len(rows) : ~rows[i].is_sent}

\* The ids of the rows with is_sent == False and remind_at <= now
get_due_reminders(rows, t) ==
    {i \in 1..Len(rows) : ~rows[i].is_sent /\ rows[i].remind_at <= t}

\* A commit of the status alone
MarkOnlyStatus(rows, rid, t, receipt) == [rows EXCEPT ![rid].is_sent = TRUE]

\* The UPDATE the commit of a sent reminder flushes: reply_tweet_id is assigned
\* only `if response.data`
MarkSent(rows, rid, t, receipt) ==
    [rows EXCEPT ![rid].is_sent = TRUE, ![rid].sent_at = t,
                 ![rid].reply_tweet_id = IF receipt = None THEN @ ELSE receipt]

\* The UPDATE the commit of a failed send flushes
RecordError(rows, rid, text) == [rows EXCEPT ![rid].error_message = text]

\* -------------------------------------------------------------- outbound
\* client.create_tweet(...): the tweet posted, a TweepyException, another error
Outcomes == {"ok", "tweepy", "other"}

CanFail == faults > 0

Post(e, kind, outcome) ==
    IF outcome = "ok" THEN [outbox EXCEPT ![e][kind] = @ + 1] ELSE outbox

Fault(outcome) == IF outcome = "ok" THEN faults ELSE faults - 1

\* The feed: every event after since_id, and possibly older ones again
FeedBatches(since_id) ==
    {{e \in Events : e > since_id} \cup old :
        old \in SUBSET {e \in Events : e <= since_id}}

\* job_stats[...] += 1 for a run that succeeded, counted up to MaxRuns
Counted(n) == IF n < MaxRuns THEN n + 1 ELSE n

\* The job function after its call returned: the run counted and dated
Succeeded(w, job) ==
    [stats EXCEPT ![w] =
        IF job = "check_mentions"
        THEN [@ EXCEPT !.mentions_checked = Counted(@), !.last_mention_check = utcnow]
        ELSE [@ EXCEPT !.reminders_processed = Counted(@), !.last_reminder_check = utcnow]]

\* An except clause that comes after the run was counted and dated
RaiseCounted(w) ==
    /\ worker' = [worker EXCEPT ![w] = Idle]
    /\ errors' = [errors EXCEPT ![w] = @ + 1]
    /\ stats' = Succeeded(w, "check_mentions")

\* The job function's except clause: the error counted, the invocation over
Raise(w) ==
    /\ worker' = [worker EXCEPT ![w] = Idle]
    /\ errors' = [errors EXCEPT ![w] = @ + 1]
    /\ UNCHANGED stats

\* A step of job on worker w that may be the last of check_mentions or of
\* process_due_reminders: if the call returns with it, the run has succeeded
Returns(w, job) ==
    stats' = IF worker'[w].pc = "idle" THEN Succeeded(w, job) ELSE stats

\* ------------------------------------------------ intake: check_mentions
\* A check_mentions that takes the mentions of a batch newest first
MentionNewestFirst(batch) ==
    IF batch = {} THEN Idle
    ELSE [Idle EXCEPT !.job = "check_mentions", !.pc = "check",
                      !.id = Max(batch), !.todo = batch]

\* The worker at the first mention of the rest of a batch, oldest first; with
\* nothing left the job function returns
Mention(batch) ==
    IF batch = {} THEN Idle
    ELSE [Idle EXCEPT !.job = "check_mentions", !.pc = "check",
                      !.id = Min(batch), !.todo = batch]

\* process_mention has returned: on to the next mention of the batch
NextMention(t) == Mention(t.todo \ {t.id})

\* One more call of process_mention on tweet_id
Called(tweet_id) == [calls EXCEPT ![tweet_id] = IF @ = 0 THEN 1 ELSE 2]

\* check_mentions_job: check_mentions has fetch_mentions read the cursor and the feed
CheckMentions(w) ==
    /\ worker[w].pc = "idle"
    /\ \E batch \in FeedBatches(get_last_mention_id) :
          worker' = [worker EXCEPT ![w] = Mention(batch)]
    /\ Returns(w, "check_mentions")
    /\ UNCHANGED <<store, mentions, clock, faults, errors, outbox, sentCommits, calls, parser>>

\* A fetch_mentions that on a failure gives up the events it asked for: the
\* cursor is moved past them
FetchFailsSkipping(w) ==
    /\ worker[w].pc = "idle"
    /\ CanFail
    /\ faults' = faults - 1
    /\ cursor' = Max(Events)
    /\ UNCHANGED <<reminders, processed, mentions, clock, worker, errors, stats, outbox,
                   sentCommits, calls, parser>>

\* fetch_mentions fails: a TweepyException is logged and the batch is empty; any
\* other error (the cursor read among them) reaches the job, which counts it
FetchFails(w) ==
    /\ worker[w].pc = "idle"
    /\ CanFail
    /\ faults' = faults - 1
    /\ \E kind \in {"tweepy", "other"} :
          IF kind = "other"
          THEN errors' = [errors EXCEPT ![w] = @ + 1] /\ UNCHANGED stats
          ELSE stats' = Succeeded(w, "check_mentions") /\ UNCHANGED errors
    /\ UNCHANGED <<store, mentions, clock, worker, outbox, sentCommits, calls, parser>>

\* process_mention: the processed check, then the parse of the text; what the
\* parse raises leaves process_mention and check_mentions (the errors it adds to
\* job_stats are followed up to MaxFaults)
Parsed(w, t, r) ==
    IF ~is_mention_processed(t.id) /\ r.exc # ""
    THEN errors[w] < MaxFaults /\ Raise(w)
    ELSE /\ worker' = [worker EXCEPT ![w] =
               IF is_mention_processed(t.id) THEN NextMention(t)
               ELSE IF r.target = None THEN [t EXCEPT !.pc = "mark_fail"]
               ELSE [t EXCEPT !.pc = "insert", !.target = r.target, !.label = r.label]]
         /\ Returns(w, "check_mentions")
         /\ UNCHANGED errors

ProcessMention(w) ==
    /\ worker[w].pc = "check"
    /\ calls' = Called(worker[w].id)
    /\ Parsed(w, worker[w], parse_reminder_time(mentions[worker[w].id]))
    /\ UNCHANGED <<store, mentions, clock, faults, outbox, sentCommits, parser>>

\* process_mention: session.add(reminder); session.commit(), and on IntegrityError
\* rollback and return None
CreateReminder(w) ==
    LET t == worker[w]
    IN  /\ t.pc = "insert"
        /\ reminders' = InsertReminder(reminders, Reminder(t.id, t.target, t.label))
        /\ worker' = [worker EXCEPT ![w] =
              IF IntegrityError(reminders, t.id) THEN NextMention(t)
              ELSE [t EXCEPT !.pc = "mark"]]
        /\ Returns(w, "check_mentions")
        /\ UNCHANGED <<processed, cursor, mentions, clock, faults, errors, outbox,
                       sentCommits, calls, parser>>

\* process_mention: mark_mention_processed, on either branch
MarkProcessed(w) ==
    LET t == worker[w]
    IN  /\ t.pc \in {"mark", "mark_fail"}
        /\ processed' = mark_mention_processed(t.id)
        /\ worker' = [worker EXCEPT ![w] =
              [t EXCEPT !.pc = IF t.pc = "mark" THEN "confirm" ELSE "reply_err"]]
        /\ UNCHANGED <<reminders, cursor, mentions, clock, faults, errors, outbox,
                       sentCommits, calls, parser, stats>>

\* _reply_with_confirmation: the duration its reply_text shows, format_duration
\* with base_time left to default to utcnow()
duration_str(t) == format_duration(t.target, utcnow)

\* _reply_with_confirmation: a TweepyException is logged, any other error is raised
ReplyWithConfirmation(w) ==
    LET t == worker[w]
    IN  /\ t.pc = "confirm"
        /\ \E o \in Outcomes :
              /\ o = "ok" \/ CanFail
              /\ outbox' = Post(t.id, "confirm", o)
              /\ faults' = Fault(o)
              /\ IF o = "other" THEN Raise(w)
                 ELSE /\ worker' = [worker EXCEPT ![w] = [t EXCEPT !.pc = "cursor"]]
                      /\ UNCHANGED <<errors, stats>>
        /\ UNCHANGED <<store, mentions, clock, sentCommits, calls, parser>>

\* process_mention: set_last_mention_id(tweet_id); return reminder
SetLastMentionId(w) ==
    LET t == worker[w]
    IN  /\ t.pc = "cursor"
        /\ cursor' = t.id
        /\ worker' = [worker EXCEPT ![w] = NextMention(t)]
        /\ Returns(w, "check_mentions")
        /\ UNCHANGED <<reminders, processed, mentions, clock, faults, errors, outbox,
                       sentCommits, calls, parser>>

\* A failed parse that goes on to set_last_mention_id
ReplyThenCursor(w) ==
    LET t == worker[w]
    IN  /\ t.pc = "reply_err"
        /\ worker' = [worker EXCEPT ![w] = [t EXCEPT !.pc = "cursor"]]
        /\ UNCHANGED <<store, mentions, clock, faults, errors, outbox, sentCommits, calls,
                       parser, stats>>

\* _reply_with_error; return None
ReplyWithError(w) ==
    LET t == worker[w]
    IN  /\ t.pc = "reply_err"
        /\ \E o \in Outcomes :
              /\ o = "ok" \/ CanFail
              /\ outbox' = Post(t.id, "error", o)
              /\ faults' = Fault(o)
              /\ IF o = "other" THEN Raise(w)
                 ELSE /\ worker' = [worker EXCEPT ![w] = NextMention(t)]
                      /\ Returns(w, "check_mentions")
                      /\ UNCHANGED errors
        /\ UNCHANGED <<store, mentions, clock, sentCommits, calls, parser>>

\* A store operation of process_mention fails with an error that is no
\* IntegrityError: nothing is written, the error leaves process_mention and
\* check_mentions, and check_mentions_job counts it
IntakeStoreFails(w) ==
    /\ worker[w].pc \in {"check", "insert", "mark", "mark_fail", "cursor"}
    /\ CanFail
    /\ faults' = faults - 1
    /\ Raise(w)
    /\ UNCHANGED <<store, mentions, clock, outbox, sentCommits, calls, parser>>

\* ------------------------------------------ delivery: process_due_reminders
\* The worker at the first reminder of the rest of the list; with nothing left
\* the job function returns
Due(list) ==
    IF list = {} THEN Idle
    ELSE [Idle EXCEPT !.job = "process_reminders", !.pc = "refetch",
                      !.id = Min(list), !.todo = list]

\* send_reminder has returned: on to the next reminder of the list
NextReminder(t) == Due(t.todo \ {t.id})

\* process_reminders_job: process_due_reminders reads the due reminders
ProcessDueReminders(w) ==
    /\ worker[w].pc = "idle"
    /\ worker' = [worker EXCEPT ![w] = Due(get_due_reminders(reminders, utcnow))]
    /\ Returns(w, "process_reminders")
    /\ UNCHANGED <<store, mentions, clock, faults, errors, outbox, sentCommits, calls, parser>>

\* A send_reminder that does not look at is_sent
RefetchBlind(w) ==
    LET t == worker[w]
    IN  /\ t.pc = "refetch"
        /\ worker' = [worker EXCEPT ![w] = [t EXCEPT !.pc = "send"]]
        /\ UNCHANGED <<store, mentions, clock, faults, errors, outbox, sentCommits, calls,
                       parser, stats>>

\* send_reminder: the reminder read again; one already sent is skipped
Refetch(w) ==
    LET t == worker[w]
    IN  /\ t.pc = "refetch"
        /\ worker' = [worker EXCEPT ![w] =
              IF reminders[t.id].is_sent THEN NextReminder(t)
              ELSE [t EXCEPT !.pc = "send"]]
        /\ Returns(w, "process_reminders")
        /\ UNCHANGED <<store, mentions, clock, faults, errors, outbox, sentCommits, calls, parser>>

\* send_reminder: client.create_tweet(...); the receipt is the new tweet's id,
\* None for a response that returns without data
CreateTweet(w) ==
    LET t == worker[w]
        e == reminders[t.id].reply_to_tweet_id
    IN  /\ t.pc = "send"
        /\ \E o \in Outcomes, data \in BOOLEAN :
              /\ o = "ok" \/ CanFail
              /\ data \/ (o = "ok" /\ CanFail)
              /\ outbox' = Post(e, "remind", o)
              /\ faults' = IF data THEN Fault(o) ELSE faults - 1
              /\ worker' = [worker EXCEPT ![w] =
                    CASE o = "ok" ->
                           [t EXCEPT !.pc = "commit",
                                     !.resp = IF data THEN outbox[e].remind + 1 ELSE None]
                      [] o = "tweepy" ->
                           [t EXCEPT !.pc = "except_tweepy", !.exc = TweepyError]
                      [] o = "other" ->
                           [t EXCEPT !.pc = "except_other", !.exc = OtherError]]
        /\ UNCHANGED <<store, mentions, clock, errors, sentCommits, calls, parser, stats>>

\* send_reminder: is_sent, sent_at and reply_tweet_id set and committed; return True
CommitSent(w) ==
    LET t == worker[w]
    IN  /\ t.pc = "commit"
        /\ reminders' = MarkSent(reminders, t.id, utcnow, t.resp)
        /\ sentCommits' = [sentCommits EXCEPT ![reminders[t.id].source_tweet_id] = @ + 1]
        /\ worker' = [worker EXCEPT ![w] = NextReminder(t)]
        /\ Returns(w, "process_reminders")
        /\ UNCHANGED <<processed, cursor, mentions, clock, faults, errors, outbox, calls, parser>>

\* send_reminder, except tweepy.TweepyException: error_message committed; return False
ExceptTweepy(w) ==
    LET t == worker[w]
    IN  /\ t.pc = "except_tweepy"
        /\ reminders' = RecordError(reminders, t.id, t.exc)
        /\ worker' = [worker EXCEPT ![w] = NextReminder(t)]
        /\ Returns(w, "process_reminders")
        /\ UNCHANGED <<processed, cursor, mentions, clock, faults, errors, outbox,
                       sentCommits, calls, parser>>

\* send_reminder, except Exception: session.rollback(); return False
ExceptOther(w) ==
    LET t == worker[w]
    IN  /\ t.pc = "except_other"
        /\ worker' = [worker EXCEPT ![w] = NextReminder(t)]
        /\ Returns(w, "process_reminders")
        /\ UNCHANGED <<store, mentions, clock, faults, errors, outbox, sentCommits, calls, parser>>

\* A store operation of the delivery job fails.  The query of the due reminders
\* and the commit inside the TweepyException handler are outside every handler of
\* send_reminder: the error reaches process_reminders_job, which counts it.  The
\* read and the commit inside the try block are caught by except Exception.
DeliveryStoreFails(w) ==
    LET t == worker[w]
    IN  /\ t.pc \in {"idle", "refetch", "commit", "except_tweepy"}
        /\ CanFail
        /\ faults' = faults - 1
        /\ IF t.pc \in {"refetch", "commit"}
           THEN /\ worker' = [worker EXCEPT ![w] =
                      [t EXCEPT !.pc = "except_other", !.exc = StoreError]]
                /\ UNCHANGED <<errors, stats>>
           ELSE Raise(w)
        /\ UNCHANGED <<store, mentions, clock, outbox, sentCommits, calls, parser>>

\* ----------------------------------------------------------- environment
\* The worker's instance is killed and started again: the job it runs and its
\* statistics are lost, the store is not
Crash(w) ==
    /\ worker[w].pc # "idle"
    /\ CanFail
    /\ faults' = faults - 1
    /\ worker' = [worker EXCEPT ![w] = Idle]
    /\ errors' = [errors EXCEPT ![w] = 0]
    /\ stats' = [stats EXCEPT ![w] = NoRuns]
    /\ UNCHANGED <<store, mentions, clock, outbox, sentCommits, calls, parser>>

Tick ==
    /\ clock < MaxTime
    /\ clock' = clock + 1
    /\ UNCHANGED <<store, mentions, faults, worker, errors, outbox, sentCommits, calls, parser, stats>>

\* The steps of check_mentions_job on worker w
IntakeStep(w) ==
    \/ CheckMentions(w)
    \/ FetchFails(w)
    \/ ProcessMention(w)
    \/ CreateReminder(w)
    \/ MarkProcessed(w)
    \/ ReplyWithConfirmation(w)
    \/ SetLastMentionId(w)
    \/ ReplyWithError(w)
    \/ IntakeStoreFails(w)

\* The steps of process_reminders_job on worker w
DeliveryStep(w) ==
    \/ ProcessDueReminders(w)
    \/ Refetch(w)
    \/ CreateTweet(w)
    \/ CommitSent(w)
    \/ ExceptTweepy(w)
    \/ ExceptOther(w)
    \/ DeliveryStoreFails(w)

\* The steps of worker w
Step(w) == IntakeStep(w) \/ DeliveryStep(w) \/ Crash(w)

\* Jobs one after the other
Next == Step("w1") \/ Tick

Spec == Init /\ [][Next]_vars

\* Jobs of two workers at the same time
RaceInit == InitWith(RaceEvents, RaceFaults) /\ parser = IdleParser

RaceNext == (\E w \in Workers : Step(w)) \/ Tick

RaceSpec == RaceInit /\ [][RaceNext]_vars

\* The intake jobs of two workers at the same time, on their own
IntakeRaceNext == \E w \in Workers : IntakeStep(w) \/ Crash(w)

IntakeRaceSpec == RaceInit /\ [][IntakeRaceNext]_vars

\* Jobs one after the other, for a feed of LiveEvents events
SoloInit == InitWith(LiveEvents, LiveFaults) /\ parser = IdleParser

SoloSpec == SoloInit /\ [][Next]_vars

\* ------------------------------------------------------ what is observed
\* The text of event e parses
Parses(e) == parse_reminder_time(mentions[e]).target # None

\* The ids of the Reminder rows whose source is event e
RowsOf(e) == {i \in 1..Len(reminders) : reminders[i].source_tweet_id = e}

\* A call of process_mention on event e is under way, past the processed check
InCall(e) ==
    \E w \in Workers :
        /\ worker[w].job = "check_mentions"
        /\ worker[w].id = e
        /\ worker[w].pc # "check"

\* ------------------------------------------------------------------ C1
\* C1 (the claim as stated, for runs with at most one failure or crash): once
\* process_mention has been called twice or more on an event whose text parses,
\* and no call on it is under way, the store holds exactly one Reminder with that
\* source id and exactly one confirmation reply has been posted for it.
C1_IdempotentIntake ==
    \A e \in Events :
        (Parses(e) /\ calls[e] >= 2 /\ ~InCall(e) /\ faults >= MaxFaults - 1) =>
            /\ Cardinality(RowsOf(e)) = 1
            /\ outbox[e].confirm = 1

\* ------------------------------------------------------------------ C2
\* C2 (the claim as stated): with no failure and no crash at all, however the
\* delivery runs of two workers interleave, a reminder is posted at most once and
\* set to sent at most once.
C2_ExactlyOnceRace ==
    \A e \in Events :
        faults = RaceFaults => (outbox[e].remind <= 1 /\ sentCommits[e] <= 1)

\* ------------------------------------------------------------------ C3
\* C3 (the claim as stated): with the delivery cycles one after the other, and
\* whatever crashes or fails inside send_reminder, no reminder has more than one
\* successful outbound reminder post.
C3_ExactlyOnceDelivery == \A e \in Events : outbox[e].remind <= 1

\* ------------------------------------------------------------------ C4
UniqueSourceIds ==
    \A i, j \in 1..Len(reminders) :
        reminders[i].source_tweet_id = reminders[j].source_tweet_id => i = j

\* The insert of process_mention made for an id that already has a Reminder
DuplicateInsert(w) == CreateReminder(w) /\ IntegrityError(reminders, worker[w].id)

\* C4: under any interleaving of the intake runs of two workers, with crashes and
\* store failures, the
\* store never holds two Reminders of one source event id; and an insert for an id
\* that already has a Reminder leaves the Reminder rows, the processed markers and
\* the cursor as they are, and process_mention returns (the batch goes on, no
\* error is counted).
C4_SourceIdUnique ==
    /\ []UniqueSourceIds
    /\ [][\A w \in Workers :
            DuplicateInsert(w) =>
                /\ UNCHANGED store
                /\ errors' = errors
                /\ worker'[w] = NextMention(worker[w])]_vars

\* One of two calls on the same event has inserted the Reminder and the other,
\* rejected by the constraint, has returned; nothing has failed
C4_DuplicateRejected ==
    \E w1, w2 \in Workers, e \in Events :
        /\ w1 # w2
        /\ worker[w1].job = "check_mentions" /\ worker[w1].pc = "mark" /\ worker[w1].id = e
        /\ worker[w2] = Idle
        /\ calls[e] = 2
        /\ e \notin processed
        /\ faults = RaceFaults
        /\ Cardinality(RowsOf(e)) = 1

\* ------------------------------------------------------------------ C5
\* C5 (the claim as stated): while a delivery cycle has reminders left in its
\* batch, no step of it other than a crash of the process (so no send error and
\* no store error while recording one) drops a reminder that is still to be
\* attempted.
C5_FailureIsolation ==
    [][\A w \in Workers :
          (worker[w].job = "process_reminders" /\ ~Crash(w)) =>
              \A b \in worker[w].todo \ {worker[w].id} : b \in worker'[w].todo]_vars

\* ------------------------------------------------------------------ C6
\* C6 (the claim as stated): when send_reminder returns after its outbound send
\* failed, with whatever kind of error, the reminder is still pending (is_sent
\* False, sent_at and reply_tweet_id unset), its error_message is the text of that
\* failure, and the due query selects it again.
C6_TransientFailure ==
    [][\A w \in Workers :
          ((ExceptTweepy(w) \/ ExceptOther(w)) /\ worker[w].exc \in {TweepyError, OtherError}) =>
              LET i == worker[w].id
              IN  /\ ~reminders'[i].is_sent
                  /\ reminders'[i].sent_at = None
                  /\ reminders'[i].reply_tweet_id = None
                  /\ reminders'[i].error_message = worker[w].exc
                  /\ i \in get_due_reminders(reminders', utcnow)]_vars

\* ------------------------------------------------------------------ C7
\* The two interval jobs of start_scheduler, each on a thread of its own: w1 runs
\* check_mentions_job and w2 runs process_reminders_job
LiveNext ==
    \/ IntakeStep("w1")
    \/ DeliveryStep("w2")
    \/ \E w \in Workers : Crash(w)
    \/ Tick

\* The delivery job keeps firing, and a delivery job that runs takes its next step
LiveSpec ==
    /\ SoloInit
    /\ [][LiveNext]_vars
    /\ WF_vars(DeliveryStep("w2"))

\* C7: with the delivery job firing again and again (weak fairness), and failures
\* that come to an end, every reminder that is pending with remind_at at or before the current
\* time is eventually sent.
C7_EventualDelivery ==
    \A i \in 1..LiveEvents :
        (i <= Len(reminders) /\ ~reminders[i].is_sent /\ reminders[i].remind_at <= utcnow)
            ~> (i <= Len(reminders) /\ reminders[i].is_sent)

\* A reminder sent by a later cycle, after a send of it had failed
C7_SentAfterFailure ==
    \E i \in 1..Len(reminders) :
        reminders[i].is_sent /\ reminders[i].error_message = TweepyError

\* ------------------------------------------------------------------ C8
\* C8, with the intake cycles one after the other: an event whose text does not
\* parse never has a Reminder, a confirmation or the cursor, and has at most one
\* error reply, posted only once the event is marked processed; process_mention
\* on it, unprocessed, goes to the parse-failure branch, which marks it; and once
\* it is marked and that call is over, no later call gets past the processed
\* check for it and no reply is posted for it.
C8_UnparsableInput ==
    /\ [](\A e \in Events :
             ~Parses(e) =>
                 /\ RowsOf(e) = {}
                 /\ cursor # e
                 /\ outbox[e].confirm = 0
                 /\ outbox[e].error <= 1
                 /\ (outbox[e].error = 1 => e \in processed))
    /\ [][/\ \A w \in Workers :
               /\ (ProcessMention(w) /\ ~Parses(worker[w].id) /\ worker[w].id \notin processed)
                     => (worker'[w].pc = "mark_fail" /\ UNCHANGED store)
               /\ (MarkProcessed(w) /\ worker[w].pc = "mark_fail")
                     => /\ worker[w].id \in processed'
                        /\ worker'[w].pc = "reply_err"
                        /\ UNCHANGED <<reminders, cursor>>
          /\ \A e \in Events :
               (~Parses(e) /\ e \in processed /\ ~InCall(e))
                     => (~InCall(e)' /\ outbox'[e] = outbox[e] /\ e \in processed')]_vars

\* An unparsable event, marked and answered with the error reply, fetched again by
\* a later cycle and skipped
C8_SkippedLater ==
    \E e \in Events :
        /\ ~Parses(e)
        /\ e \in processed
        /\ outbox[e].error = 1
        /\ calls[e] = 2
        /\ worker["w1"] = Idle

\* ------------------------------------------------- the parser on its own
\* A call parse(text, base_time) about to be made, the bot at rest
ParserInit ==
    /\ InitWith(0, 0)
    /\ \E text \in ParserTexts, b \in ParserBases :
          \E cal \in [1..PhrasesToTry -> CalAnswers(b)] :
              parser = [text |-> text, base_time |-> b, cal |-> cal,
                        done |-> FALSE, result |-> Failure, exc |-> "",
                        target_time |-> None, shown |-> <<>>]

\* The call over: it has raised r.exc, or it has returned r
Returned(call, r) ==
    IF r.exc # "" THEN [call EXCEPT !.exc = r.exc]
    ELSE [call EXCEPT !.done = TRUE, !.result = r]

\* time_parser.parse(text, base_time) returns, or raises
ParseCall ==
    /\ ~parser.done
    /\ parser.exc = ""
    /\ parser' = Returned(parser, parse(parser.text, parser.base_time, parser.cal))
    /\ UNCHANGED <<store, mentions, clock, faults, worker, errors, outbox, sentCommits, calls, stats>>

ParserNext == ParseCall

ParserSpec == ParserInit /\ [][ParserNext]_vars

\* ------------------------------------------- format_duration on its own
\* Gaps in whole seconds, on both sides of every threshold
FormatGaps == {1, 2, 59, 60, 61, 119, 120, 3599, 3600, 7199, 7200, 86399, 86400,
               172799, 172800, 604799, 604800, 1209599, 1209600, 2591999, 2592000,
               5183999, 5184000, 31535999, 31536000, 63071999, 63072000, 315360000}

\* A call format_duration(target_time, base_time) about to be made
FormatInit ==
    /\ InitWith(0, 0)
    /\ \E b \in ParserBases, g \in FormatGaps :
          parser = [IdleParser EXCEPT !.base_time = b, !.target_time = b + g]

\* time_parser.format_duration(target_time, base_time) returns
FormatCall ==
    /\ parser.shown = <<>>
    /\ parser' = [parser EXCEPT !.shown = format_duration(parser.target_time, parser.base_time)]
    /\ UNCHANGED <<store, mentions, clock, faults, worker, errors, outbox, sentCommits, calls, stats>>

FormatSpec == FormatInit /\ [][FormatCall]_vars

\* The text both phases see, and what the explicit-unit phase makes of it
Normalized == Normalize(parser.text)
Explicit == _parse_explicit_duration(Normalized, parser.base_time)

\* ------------------------------------------------------------------ C9
\* The texts "N month(s)" among the inputs, and their N
MonthTexts == {<<T_1_month, 1>>, <<T_bot_3_months, 3>>, <<T_2_Months, 2>>}

\* C9 (the claim as stated): parse("N month(s)", ref) resolves the unit as months
\* and returns ref advanced by N calendar months, the day clamped to the target
\* month's last day; "1 month" from 2024-01-31T00:00:00 lands in February 2024.
C9_CalendarMonths ==
    \A mt \in MonthTexts :
        (parser.done /\ parser.text = mt[1]) =>
            /\ ExplicitUnit(Normalized) = "months"
            /\ parser.result.target = AddMonths(parser.base_time, mt[2])
            /\ (parser.text = T_1_month /\ parser.base_time = DateTime(2024, 1, 31, 0, 0, 0)
                  => /\ Civil(parser.result.target).year = 2024
                     /\ Civil(parser.result.target).month = 2)

\* ------------------------------------------------------------------ C10
T_3_months == <<"3", " ", "m", "o", "n", "t", "h", "s">>

\* C10 (the claim as stated): for "remind me 3 months please, thanks 2x" parse
\* returns the explicit-unit phase's result for the first span: amount 3, unit
\* months, label "3 months"; the natural-language fallback is not used.
C10_UnitPrecedence ==
    (parser.done /\ parser.text = T_remind_3_months) =>
        /\ parser.result = Explicit
        /\ ExplicitAmount(Normalized) = 3
        /\ ExplicitUnit(Normalized) = "months"
        /\ parser.result.label = T_3_months

\* ------------------------------------------------------------------ C11
\* Jobs one after the other, for a feed that also asks for whole weeks
FeedSpec ==
    InitFeed(LiveEvents, LiveFaults, FeedTexts) /\ parser = IdleParser /\ [][Next]_vars

\* C11: for a request "N weeks" with N in 1..4, format_duration of the parsed
\* target against the instant it was parsed at is N weeks again, and that is
\* the duration the confirmation reply posted for the request shows.
C11_RoundTrip ==
    /\ [](\A text \in WeekTexts :
            format_duration(parse_reminder_time(text).target, utcnow)
                = Plural(ToInt(<<text[1]>>), <<"w", "e", "e", "k">>))
    /\ [][\A w \in Workers : \A e \in Events :
            (/\ ReplyWithConfirmation(w)
             /\ worker[w].id = e
             /\ outbox'[e].confirm = outbox[e].confirm + 1
             /\ mentions[e] \in WeekTexts)
            => duration_str(worker[w])
                   = Plural(ToInt(<<mentions[e][1]>>), <<"w", "e", "e", "k">>)]_vars

\* ------------------------------------------------------------------ C12
\* C12: when the insert of process_mention is rejected because a Reminder with
\* that source id already exists, the call goes on as after an accepted insert:
\* it marks the event processed next, and from there replies with the
\* confirmation and advances the cursor to the event's id.
C12_RejectionIsSuccess ==
    [][\A w \in Workers :
          DuplicateInsert(w) => worker'[w] = [worker[w] EXCEPT !.pc = "mark"]]_vars

\* ------------------------------------------------------------------ C13
\* C13: a crash of the process at any point after an event's Reminder row is
\* committed and before the cursor is advanced to the event leaves the event in
\* processed_mentions, which is what makes the refetched event be skipped at the
\* is_mention_processed check, without a second Reminder, reply or store write.
C13_CrashSafeIntake ==
    [][\A w \in Workers :
          (/\ Crash(w)
           /\ worker[w].job = "check_mentions"
           /\ worker[w].pc \in {"mark", "confirm", "cursor"})
          => is_mention_processed(worker[w].id)']_vars

\* ------------------------------------------------------------------ C14
\* Intake cycles one after the other, for a feed of MaxEvents events
IntakeNext == IntakeStep("w1") \/ Crash("w1") \/ Tick

IntakeSpec == InitWith(MaxEvents, LiveFaults) /\ parser = IdleParser /\ [][IntakeNext]_vars

\* C14: over any sequence of intake cycles, with batches taken oldest first and
\* older ids delivered again, the stored cursor never decreases: once set it
\* stays set, and every write of it is an id at least the value before.
C14_CursorMonotonic ==
    [][/\ cursor # None => cursor' # None /\ cursor' >= cursor
       /\ \A w \in Workers : SetLastMentionId(w) => worker[w].id >= cursor]_vars

\* An id older than the cursor is delivered again, is not marked processed and
\* is on its way to the insert
C14_OldIdRedelivered ==
    \E w \in Workers :
        /\ worker[w].job = "check_mentions"
        /\ worker[w].pc = "insert"
        /\ cursor # None
        /\ worker[w].id < cursor

\* ------------------------------------------------------------------ C15
\* C15: in every state where the cursor is event id e, the Reminder for e is
\* stored, e is in processed_mentions, and the confirmation reply for e has
\* been posted: the cursor is not advanced to e when the reply failed.
C15_CursorAfterEffects ==
    cursor # None =>
        /\ RowsOf(cursor) # {}
        /\ is_mention_processed(cursor)
        /\ outbox[cursor].confirm >= 1

\* ------------------------------------------------------------------ C16
\* C16: an exception that reaches check_mentions_job or process_reminders_job
\* is caught there: the error counter goes up by exactly one, the counter of
\* successful runs and the last-run timestamp of the job stay as they are, the
\* invocation is over and the next tick of either job can fire.
C16_SchedulerIsolation ==
    /\ [][\A w \in Workers :
            /\ (\/ IntakeStoreFails(w)
                \/ DeliveryStoreFails(w) /\ worker[w].pc \in {"idle", "except_tweepy"})
               => errors'[w] = errors[w] + 1
            /\ ~Crash(w) => errors'[w] \in {errors[w], errors[w] + 1}
            /\ errors'[w] = errors[w] + 1
               => stats'[w] = stats[w] /\ worker'[w] = Idle]_vars
    /\ [](\A w \in Workers :
            worker[w] = Idle => ENABLED CheckMentions(w) /\ ENABLED ProcessDueReminders(w))

\* A job has failed and the instance has a successful intake run on record
C16_ErrorCounted ==
    \E w \in Workers :
        /\ errors[w] = 1
        /\ stats[w].mentions_checked = 1
        /\ worker[w] = Idle

\* ------------------------------------------------------------------ C18
\* C18: when the feed call of fetch_mentions fails, the intake cycle handles no
\* event (no call of process_mention, no reply), the cursor, the Reminders and
\* the processed events stay as they are, the cycle is over, and the next
\* intake tick reads the same cursor value.
C18_FetchFailure ==
    [][\A w \in Workers :
          FetchFails(w) =>
              /\ UNCHANGED <<store, calls, outbox>>
              /\ worker'[w] = Idle
              /\ get_last_mention_id' = get_last_mention_id]_vars

\* A cycle has ended as a run of the job without one event handled: its fetch
\* failed with a TweepyException
C18_FetchFailed ==
    \E w \in Workers :
        /\ worker[w] = Idle
        /\ stats[w].mentions_checked = 1
        /\ \A e \in Events : calls[e] = 0
        /\ store = <<(<<>>), {}, None>>

\* ------------------------------------------------------------------ C19
\* C19: when a store operation fails during an intake or a delivery cycle (the
\* processed check, the insert of a reminder, the marking of an event, the
\* write of the cursor, the query of the due reminders, the read or the commit
\* of a reminder being sent), the cycle is aborted, the error counter of the
\* scheduler records the failure, and the job can run at its next tick.
C19_StoreUnavailable ==
    [][\A w \in Workers :
          (IntakeStoreFails(w) \/ DeliveryStoreFails(w)) =>
              /\ worker'[w] = Idle
              /\ errors'[w] = errors[w] + 1]_vars

\* ------------------------------------------------------------------ C20
\* C20: every successful result of parse(text, ref), from the explicit-unit
\* phase or from the natural-language fallback, has a target strictly after
\* ref; when neither the explicit phase nor any phrase tried yields an instant
\* strictly after ref, parse returns Failure.
C20_FutureOnly ==
    parser.done =>
        /\ parser.result.target # None => parser.result.target > parser.base_time
        /\ (/\ ~(Explicit.target # None /\ Explicit.target > parser.base_time)
            /\ \A i \in 1..PhrasesToTry :
                  ~(parser.cal[i].status > 0 /\ parser.cal[i].time > parser.base_time))
           => parser.result = Failure

\* ------------------------------------------------------------------ C21
\* C21: when the normalized text holds spans <integer><unit> of several units,
\* parse uses the span that starts earliest in the text, and only that one, for
\* the target and the label, whatever the units.
C21_LeftmostWins ==
    parser.done =>
        LET t == Normalized
            found(k) == re_search(t, duration_patterns[k].alts)
            ks == {k \in 1..Len(duration_patterns) : found(k) # NoMatch}
        IN  ks # {} =>
                \E k \in ks :
                    /\ \A j \in ks : found(k).start <= found(j).start
                    /\ parser.result =
                          [target |-> ApplyDelta(parser.base_time, duration_patterns[k].unit,
                                                 MatchAmount(t, found(k))),
                           label |-> MatchText(t, found(k)), exc |-> ""]

\* ------------------------------------------------------------------ C22
\* C22: parse never raises: every call made returns a (target, label) pair or
\* (None, None), whatever the text and however large its integer amount.
C22_ParserNeverRaises == parser.exc = ""

\* ------------------------------------------------------------------ C23
\* C23: a delivery cycle that starts at the instant now selects exactly the
\* reminders that are unsent and whose remind_at is not after now; no reminder
\* whose remind_at is still ahead is ever in the hands of send_reminder.
C23_DueSelection ==
    /\ [][\A w \in Workers :
            ProcessDueReminders(w) =>
                \A i \in 1..Len(reminders) :
                    (worker'[w].pc # "idle" /\ i \in worker'[w].todo)
                        <=> (~reminders[i].is_sent /\ reminders[i].remind_at <= utcnow)]_vars
    /\ [](\A w \in Workers :
            worker[w].job = "process_reminders" =>
                \A i \in worker[w].todo : reminders[i].remind_at <= utcnow)

\* A reminder that was not due when it was created is with send_reminder
C23_DueSelected ==
    \E w \in Workers :
        /\ worker[w].job = "process_reminders"
        /\ worker[w].pc = "send"
        /\ reminders[worker[w].id].created_at < reminders[worker[w].id].remind_at

\* ------------------------------------------------------------------ C24
\* C24: send_reminder called with a reminder whose stored row is already sent
\* makes no outbound send and leaves is_sent, sent_at, reply_tweet_id and
\* error_message of the row as they are: the call goes on to the next reminder
\* of the list, or ends in a handler that writes nothing.
C24_SentIsSkipped ==
    [][\A w \in Workers :
          (/\ worker[w].pc = "refetch"
           /\ reminders[worker[w].id].is_sent
           /\ worker'[w] # worker[w])
          => /\ outbox' = outbox
             /\ reminders' = reminders
             /\ sentCommits' = sentCommits
             /\ worker'[w] \in {NextReminder(worker[w]), Idle,
                                 [worker[w] EXCEPT !.pc = "except_other", !.exc = StoreError]}]_vars

\* send_reminder has been called with a reminder another job has sent meanwhile
C24_CalledWithSent ==
    \E w \in Workers :
        /\ worker[w].pc = "refetch"
        /\ reminders[worker[w].id].is_sent
        /\ sentCommits[reminders[worker[w].id].source_tweet_id] = 1

\* ------------------------------------------------------------------ C25
\* C25: process_mention on an event whose id has a ProcessedMention row writes
\* nothing to the reminders, the processed mentions or the cursor and sends no
\* reply of either kind: check_mentions goes on to the next event.
C25_ProcessedIsSkipped ==
    [][\A w \in Workers :
          (/\ worker[w].pc = "check"
           /\ worker[w].id \in processed
           /\ worker'[w] # worker[w])
          => /\ store' = store
             /\ outbox' = outbox
             /\ worker'[w] \in {NextMention(worker[w]), Idle}]_vars

\* process_mention is called again with an event it has marked before
C25_CalledWithProcessed ==
    \E w \in Workers :
        /\ worker[w].pc = "check"
        /\ worker[w].id \in processed
        /\ calls[worker[w].id] >= 1

\* ------------------------------------------------------------------ C26
\* C26: a reminder that is not sent has sent_at and reply_tweet_id unset and a
\* sent one has sent_at set; is_sent, sent_at and reply_tweet_id change only
\* together, in the one commit of a send_reminder whose create_tweet has
\* returned, which leaves the row sent, dated now and with the id the response
\* carries.
C26_SentFields ==
    /\ [](\A i \in 1..Len(reminders) :
            /\ ~reminders[i].is_sent =>
                  reminders[i].sent_at = None /\ reminders[i].reply_tweet_id = None
            /\ reminders[i].is_sent => reminders[i].sent_at # None)
    /\ [][\A i \in 1..Len(reminders) :
            (\/ reminders'[i].is_sent # reminders[i].is_sent
             \/ reminders'[i].sent_at # reminders[i].sent_at
             \/ reminders'[i].reply_tweet_id # reminders[i].reply_tweet_id)
            => \E w \in Workers :
                  /\ worker[w].pc = "commit"
                  /\ worker[w].id = i
                  /\ worker'[w] # worker[w]
                  /\ outbox[reminders[i].reply_to_tweet_id].remind >= 1
                  /\ reminders'[i].is_sent
                  /\ reminders'[i].sent_at = utcnow
                  /\ worker[w].resp # None =>
                        reminders'[i].reply_tweet_id = worker[w].resp]_vars

\* A reminder sent, dated and carrying the id of the reply
C26_SentWithReceipt ==
    \E i \in 1..Len(reminders) :
        /\ reminders[i].is_sent
        /\ reminders[i].sent_at # None
        /\ reminders[i].reply_tweet_id # None

\* ------------------------------------------------------------------ C27
\* C27: no step deletes a Reminder or a ProcessedMention row or changes a
\* reminder's source_tweet_id, reply_to_tweet_id, original_text, duration_text,
\* remind_at or created_at; a step of the intake job leaves every existing reminder as it is;
\* a step of the delivery job adds no reminder and leaves the processed mentions
\* and the cursor as they are.
C27_LifecycleFrame ==
    [][/\ Len(reminders') >= Len(reminders)
       /\ processed \subseteq processed'
       /\ \A i \in 1..Len(reminders) :
             /\ reminders'[i].source_tweet_id = reminders[i].source_tweet_id
             /\ reminders'[i].reply_to_tweet_id = reminders[i].reply_to_tweet_id
             /\ reminders'[i].original_text = reminders[i].original_text
             /\ reminders'[i].duration_text = reminders[i].duration_text
             /\ reminders'[i].remind_at = reminders[i].remind_at
             /\ reminders'[i].created_at = reminders[i].created_at
       /\ \A w \in Workers :
             /\ IntakeStep(w) => \A i \in 1..Len(reminders) : reminders'[i] = reminders[i]
             /\ DeliveryStep(w) =>
                   /\ Len(reminders') = Len(reminders)
                   /\ processed' = processed
                   /\ cursor' = cursor]_vars

\* A reminder that delivery has sent and intake has met again
C27_SentAndSeenAgain ==
    \E i \in 1..Len(reminders) :
        /\ reminders[i].is_sent
        /\ calls[reminders[i].source_tweet_id] = 2
        /\ reminders[i].source_tweet_id \in processed

\* ------------------------------------------------------------------ C28
\* C28: for a gap of g >= 1 whole seconds format_duration names the coarsest of
\* second (1), minute (60), hour (3600), day (86400), week (604800), month
\* (2592000) and year (31536000) that is not longer than g, with the number
\* floor(g / unit), which is at least 1, and the unit in the singular exactly
\* when the number is 1.
C28_Bucketing ==
    parser.shown # <<>> =>
        LET g == parser.target_time - parser.base_time
            units == << <<1, <<"s", "e", "c", "o", "n", "d">> >>,
                        <<60, <<"m", "i", "n", "u", "t", "e">> >>,
                        <<3600, <<"h", "o", "u", "r">> >>,
                        <<86400, <<"d", "a", "y">> >>,
                        <<604800, <<"w", "e", "e", "k">> >>,
                        <<2592000, <<"m", "o", "n", "t", "h">> >>,
                        <<31536000, <<"y", "e", "a", "r">> >> >>
            k == Max({j \in 1..Len(units) : units[j][1] <= g})
            n == g \div units[k][1]
        IN  /\ g >= 1
            /\ n >= 1
            /\ k < Len(units) => g < units[k + 1][1]
            /\ parser.shown =
                  str(n) \o <<" ">> \o units[k][2] \o (IF n = 1 THEN <<>> ELSE <<"s">>)

\* The last second before two minutes is shown as "1 minute"
C28_OneMinute ==
    /\ parser.target_time - parser.base_time = 119
    /\ parser.shown = <<"1", " ", "m", "i", "n", "u", "t", "e">>

\* ------------------------------------------------------------------ C29
\* C29: in every reachable state the cursor is unset or is the source_tweet_id
\* of an existing Reminder row; a step of process_mention on an event that does
\* not parse, that is already processed or whose insert is rejected as a
\* duplicate leaves the cursor as it is and is not on the way to
\* set_last_mention_id.
C29_CursorAtReminder ==
    /\ [](cursor = None \/ \E i \in 1..Len(reminders) : reminders[i].source_tweet_id = cursor)
    /\ [][\A w \in Workers :
            (/\ worker'[w] # worker[w]
             /\ \/ worker[w].pc = "check" /\ worker[w].id \in processed
                \/ worker[w].pc = "check" /\ ~Parses(worker[w].id)
                \/ worker[w].pc \in {"mark_fail", "reply_err"}
                \/ worker[w].pc = "insert" /\ IntegrityError(reminders, worker[w].id))
            => /\ cursor' = cursor
               /\ ~(/\ worker'[w].id = worker[w].id
                     /\ worker'[w].pc \in {"insert", "mark", "confirm", "cursor"})]_vars

\* The cursor at a reminder's event while another event, which did not parse,
\* is marked processed
C29_CursorPastFailure ==
    \E e \in processed :
        /\ ~Parses(e)
        /\ cursor # None
        /\ cursor # e
        /\ \E i \in 1..Len(reminders) : reminders[i].source_tweet_id = cursor

\* ------------------------------------------------------------------ C30
\* C30: over any interleaving of intake and delivery cycles, a reminder that is
\* sent stays sent, and its sent_at and reply_tweet_id stay what they are.
C30_StatusMonotonic ==
    [][\A i \in 1..Len(reminders) :
          reminders[i].is_sent =>
              /\ reminders'[i].is_sent
              /\ reminders'[i].sent_at = reminders[i].sent_at
              /\ reminders'[i].reply_tweet_id = reminders[i].reply_tweet_id]_vars

\* ------------------------------------------------------------------ C31
\* The intake job fired again and again: every step of check_mentions_job that
\* can be taken is taken in the end; crashes and failures are finitely many
IntakeLiveSpec ==
    /\ SoloInit
    /\ [][IntakeNext]_vars
    /\ WF_vars(IntakeStep("w1"))

\* C31: with the intake job firing for ever, the store available in the end and
\* the feed returning every event the cursor has not passed, every event of the
\* feed is eventually recorded as a processed mention, also one whose Reminder
\* was committed just before a crash.
C31_IntakeProgress == \A e \in 1..LiveEvents : <>(e \in processed)

\* ------------------------------------------------------------------ C32
\* C32: under any interleaving of the intake runs of two workers, with crashes,
\* every event has received at most one reply of the intake in total: one
\* confirmation or one error reply, never both, never two of a kind.
C32_OneIntakeReply ==
    \A e \in Events : outbox[e].confirm + outbox[e].error <= 1

====
